---- MODULE Spec2Model ----
(***************************************************************************)
(* Model of backend/content/serializers.py: the validate() methods of the  *)
(* content serializers.  A record (the `data` dict) is received, the       *)
(* serializer of its type validates it, and the call either returns the    *)
(* dict, raises a ValidationError, or lets another exception escape.       *)
(***************************************************************************)
EXTENDS Integers, Sequences, FiniteSets, TLC

VARIABLES recordType, data, db, probe, result, calls, pc

vars == <<recordType, data, db, probe, result, calls, pc>>

(* ------------------------------ bounds --------------------------------- *)

\* dates are the days 1..MaxDate
MaxDate == 2
\* primary keys are 1..MaxId
MaxId == 2

(* ------------------------- program constants --------------------------- *)

\* serializers.py:166, the largest accepted image size in bytes
MaxImageSize == 10485760

(* ------------------------------ values --------------------------------- *)

\* Python values are tagged; a str is the sequence of its characters.
None == [t |-> "none"]
Str(s) == [t |-> "str", s |-> s]
IntV(n) == [t |-> "int", n |-> n]
FloatV(n) == [t |-> "float", n |-> n]
Bool(b) == [t |-> "bool", b |-> b]
Date(d) == [t |-> "date", d |-> d]
\* an uploaded file object: its name, its size in bytes, and where its read
\* position stands ("start": nothing read yet, "moved": bytes were read)
File(name, size, pos) == [t |-> "file", name |-> name, size |-> size, pos |-> pos]

\* reading from the file object: the position moves unless the file is empty
ReadStream(f) == [f EXCEPT !.pos = IF f.size > 0 THEN "moved" ELSE "start"]

\* marks a key that the dict does not have (never stored in `data`)
Absent == [t |-> "absent"]

\* the dict holding exactly the keys of f whose value is not Absent
MkRecord(f) == [k \in {j \in DOMAIN f : f[j].t # "absent"} |-> f[k]]

\* dict.get(key): the value, or None when the key is missing
Get(d, key) == IF key \in DOMAIN d THEN d[key] ELSE None

\* isinstance(v, int): bool is a subclass of int
IsInstanceInt(v) == v.t \in {"int", "bool"}

\* str.endswith(suffix)
EndsWith(s, suffix) ==
    /\ Len(s) >= Len(suffix)
    /\ SubSeq(s, Len(s) - Len(suffix) + 1, Len(s)) = suffix

\* str.endswith(tuple of suffixes): true when any of them matches
EndsWithAny(s, suffixes) == \E i \in 1..Len(suffixes) : EndsWith(s, suffixes[i])

\* serializers.py:159, the allow-listed suffixes
AllowedSuffixes ==
    << <<".", "j", "p", "g">>, <<".", "j", "p", "e", "g">>, <<".", "p", "n", "g">> >>

(* ---------------------------- exceptions ------------------------------- *)

NoExc == [kind |-> "none"]

\* rest_framework ValidationError(detail, code): detail becomes a list of one
\* ErrorDetail; the code defaults to "invalid" when none is passed.
ValidationError(msg, code) ==
    [kind |-> "ValidationError", detail |-> <<[msg |-> msg, code |-> code]>>]

DefaultCode == "invalid"

\* data[key] on a dict that lacks key
KeyError(key) == [kind |-> "KeyError", key |-> key]

\* the effect of one statement: the exception it raises (or NoExc) and the
\* collaborator calls it made
Step(exc, cs) == [exc |-> exc, calls |-> cs]

Pass == Step(NoExc, <<>>)

\* Statements run in order; the first exception raised ends the call, and the
\* statements after it are never executed.
RECURSIVE RunFrom(_, _, _)
RunFrom(steps, i, cs) ==
    IF i > Len(steps)
    THEN Step(NoExc, cs)
    ELSE IF steps[i].exc.kind # "none"
         THEN Step(steps[i].exc, cs \o steps[i].calls)
         ELSE RunFrom(steps, i + 1, cs \o steps[i].calls)

Run(steps) == RunFrom(steps, 1, <<>>)

\* `return data` after the statements: the dict object itself is returned, in
\* the state d the statements left it in
Return(run, d) ==
    [exc |-> run.exc, calls |-> run.calls, data |-> d,
     ret |-> IF run.exc.kind = "none" THEN d ELSE Absent]

(* ------------------------- utils.utils helpers ------------------------- *)

IsBlank(s) == \A i \in 1..Len(s) : s[i] = " "

\* validate_empty(value, field_name)
validate_empty(value, field_name) ==
    IF IsBlank(value.s)
    THEN Step(ValidationError(field_name, "empty_field"), <<>>)
    ELSE Pass

\* validate_object_existence(model, object_id): asks the database
validate_object_existence(model, object_id, rows) ==
    Step(IF <<model, object_id.n>> \in rows
         THEN NoExc
         ELSE ValidationError(model, "not_found"),
         <<[fn |-> "exists", model |-> model, id |-> object_id.n]>>)

\* validate_creation_and_deletion_dates(data)
validate_creation_and_deletion_dates(d) ==
    IF /\ Get(d, "deletion_date").t # "none"
       /\ Get(d, "deletion_date").d < d["creation_date"].d
    THEN Step(ValidationError("deletion_date", "date_order"), <<>>)
    ELSE Pass

\* validate_creation_and_deprecation_dates(data)
validate_creation_and_deprecation_dates(d) ==
    IF /\ Get(d, "deprecation_date").t # "none"
       /\ Get(d, "deprecation_date").d < d["creation_date"].d
    THEN Step(ValidationError("deprecation_date", "date_order"), <<>>)
    ELSE Pass

\* f(data[key], ...): the subscript is evaluated before the call is made
Subscript(d, key, step) == IF key \in DOMAIN d THEN step ELSE Step(KeyError(key), <<>>)

(* ------------------------------ Faq ------------------------------------ *)

FaqStatements(d, rows) ==
    <<
        Subscript(d, "question", validate_empty(Get(d, "question"), "question")),
        Subscript(d, "org_id",
                  validate_object_existence("entities.Organization", Get(d, "org_id"), rows))
    >>

FaqSerializer_validate(d, rows) == Return(Run(FaqStatements(d, rows)), d)

(* ---------------------------- Resource --------------------------------- *)

\* `total_flags := data.get("total_flags") is not None` binds the name to the
\* result of the comparison, a bool, and the isinstance test is made on it.
ResourceStatements(d) ==
    LET total_flags == Bool(Get(d, "total_flags").t # "none")
    IN  << IF total_flags.b
           THEN IF ~IsInstanceInt(total_flags)
                THEN Step(ValidationError("Total flags must be an integer value.",
                                          DefaultCode), <<>>)
                ELSE Pass
           ELSE Pass >>

ResourceSerializer_validate(d) == Return(Run(ResourceStatements(d)), d)

(* ------------------------------ Task ----------------------------------- *)

TaskStatements(d) ==
    <<
        Subscript(d, "name", validate_empty(Get(d, "name"), "name")),
        Subscript(d, "description", validate_empty(Get(d, "description"), "description")),
        validate_creation_and_deletion_dates(d)
    >>

TaskSerializer_validate(d) == Return(Run(TaskStatements(d)), d)

(* ------------------------------ Topic ---------------------------------- *)

\* data["active"] is True and data["deprecation_date"] is not None
TopicActiveWithDeprecation(d) ==
    IF "active" \notin DOMAIN d THEN Step(KeyError("active"), <<>>)
    ELSE IF d["active"] = Bool(TRUE)
         THEN IF "deprecation_date" \notin DOMAIN d
              THEN Step(KeyError("deprecation_date"), <<>>)
              ELSE IF d["deprecation_date"].t # "none"
                   THEN Step(ValidationError("Active topics cannot have a deprecation date.",
                                             DefaultCode), <<>>)
                   ELSE Pass
         ELSE Pass

\* variant: the second test repeats the first one's `is not None`
TopicInactiveWithoutDeprecation_isNotNone(d) ==
    IF "active" \notin DOMAIN d THEN Step(KeyError("active"), <<>>)
    ELSE IF d["active"] = Bool(FALSE)
         THEN IF "deprecation_date" \notin DOMAIN d
              THEN Step(KeyError("deprecation_date"), <<>>)
              ELSE IF d["deprecation_date"].t # "none"
                   THEN Step(ValidationError("Inactive topics must have a deprecation date.",
                                             DefaultCode), <<>>)
                   ELSE Pass
         ELSE Pass

\* data["active"] is False and data["deprecation_date"] is None
TopicInactiveWithoutDeprecation(d) ==
    IF "active" \notin DOMAIN d THEN Step(KeyError("active"), <<>>)
    ELSE IF d["active"] = Bool(FALSE)
         THEN IF "deprecation_date" \notin DOMAIN d
              THEN Step(KeyError("deprecation_date"), <<>>)
              ELSE IF d["deprecation_date"].t = "none"
                   THEN Step(ValidationError("Inactive topics must have a deprecation date.",
                                             DefaultCode), <<>>)
                   ELSE Pass
         ELSE Pass

TopicStatements(d) ==
    <<
        Subscript(d, "name", validate_empty(Get(d, "name"), "name")),
        Subscript(d, "description", validate_empty(Get(d, "description"), "description")),
        TopicActiveWithDeprecation(d),
        TopicInactiveWithoutDeprecation(d),
        validate_creation_and_deprecation_dates(d)
    >>

TopicSerializer_validate(d) == Return(Run(TopicStatements(d)), d)

(* ------------------------------- Tag ----------------------------------- *)

TagStatements(d) ==
    <<
        Subscript(d, "text", validate_empty(Get(d, "text"), "text"))
    >>

TagSerializer_validate(d) == Return(Run(TagStatements(d)), d)

(* ------------------------- link serializers ---------------------------- *)

ResourceTopicStatements(d, rows) ==
    <<
        Subscript(d, "resource_id",
                  validate_object_existence("Resource", Get(d, "resource_id"), rows)),
        Subscript(d, "topic_id",
                  validate_object_existence("Topic", Get(d, "topic_id"), rows))
    >>

ResourceTopicSerializer_validate(d, rows) == Return(Run(ResourceTopicStatements(d, rows)), d)

ResourceTagStatements(d, rows) ==
    <<
        Subscript(d, "resource_id",
                  validate_object_existence("Resource", Get(d, "resource_id"), rows)),
        Subscript(d, "tag_id",
                  validate_object_existence("Tag", Get(d, "tag_id"), rows))
    >>

ResourceTagSerializer_validate(d, rows) == Return(Run(ResourceTagStatements(d, rows)), d)

TopicFormatStatements(d, rows) ==
    <<
        Subscript(d, "topic_id",
                  validate_object_existence("Topic", Get(d, "topic_id"), rows)),
        Subscript(d, "format_id",
                  validate_object_existence("Format", Get(d, "format_id"), rows))
    >>

TopicFormatSerializer_validate(d, rows) == Return(Run(TopicFormatStatements(d, rows)), d)

(* ------------------------------ Image ---------------------------------- *)

\* exception classes that derive from Exception, as `except Exception` tests
ExceptionSubclasses ==
    {"UnidentifiedImageError", "OSError", "SyntaxError", "DecompressionBombError"}

\* exception classes that derive from BaseException only
BaseExceptionOnly == {"KeyboardInterrupt", "SystemExit", "GeneratorExit"}

\* what can be raised while PilImage.open(...) / img.verify() run
ProbeExceptions == ExceptionSubclasses \cup BaseExceptionOnly

ProbeOutcomes == {"Ok"} \cup ProbeExceptions

\* variant: the suffixes are written without their dot
ImageExtensionCheck_noDot(d) ==
    Subscript(d, "image_location",
        IF ~EndsWithAny(Get(d, "image_location").name,
                        << <<"j", "p", "g">>, <<"j", "p", "e", "g">>, <<"p", "n", "g">> >>)
        THEN Step(ValidationError("The image must be in .jpg, .jpeg, or .png format.",
                                  "invalid_file"), <<>>)
        ELSE Pass)

\* not data["image_location"].name.endswith((".jpg", ".jpeg", ".png"))
ImageExtensionCheck(d) ==
    Subscript(d, "image_location",
        IF ~EndsWithAny(Get(d, "image_location").name, AllowedSuffixes)
        THEN Step(ValidationError("The image must be in .jpg, .jpeg, or .png format.",
                                  "invalid_file"), <<>>)
        ELSE Pass)

\* variant: >= in place of >
ImageSizeCheck_ge(d) ==
    Subscript(d, "image_location",
        IF Get(d, "image_location").size >= MaxImageSize
        THEN Step(ValidationError("The image must be less than 10MB in size.",
                                  "invalid_file"), <<>>)
        ELSE Pass)

\* data["image_location"].size > 10485760
ImageSizeCheck(d) ==
    Subscript(d, "image_location",
        IF Get(d, "image_location").size > MaxImageSize
        THEN Step(ValidationError("The image must be less than 10MB in size.",
                                  "invalid_file"), <<>>)
        ELSE Pass)

\* variant: `except OSError`, every other exception of the probe escapes
ImageVerifyCheck_OSErrorOnly(d, pr) ==
    IF "image_location" \notin DOMAIN d
    THEN Step(KeyError("image_location"), <<>>)
    ELSE Step(IF pr = "Ok"
              THEN NoExc
              ELSE IF pr = "OSError"
                   THEN ValidationError("The image is not valid.", "corrupted_file")
                   ELSE [kind |-> pr],
              <<[fn |-> "PilImage.open", file |-> d["image_location"]]>>)

\* try: PilImage.open(...).verify()  except Exception: raise corrupted_file.
\* Only exceptions deriving from Exception are caught; any other propagates.
\* The subscript is inside the try, so its KeyError is caught as well.
ImageVerifyCheck(d, pr) ==
    IF "image_location" \notin DOMAIN d
    THEN Step(ValidationError("The image is not valid.", "corrupted_file"), <<>>)
    ELSE Step(IF pr = "Ok"
              THEN NoExc
              ELSE IF pr \in ExceptionSubclasses
                   THEN ValidationError("The image is not valid.", "corrupted_file")
                   ELSE [kind |-> pr],
              <<[fn |-> "PilImage.open", file |-> d["image_location"]]>>)

ImageStatements(d, pr) ==
    <<
        ImageExtensionCheck(d),
        ImageSizeCheck(d),
        ImageVerifyCheck(d, pr)
    >>

\* PilImage.open and img.verify read from the file object they are given, so
\* once the decoder has been called the stream of data["image_location"] has
\* been read; nothing in validate rewinds it.
ImageAfter(d, run) ==
    IF \E i \in 1..Len(run.calls) : run.calls[i].fn = "PilImage.open"
    THEN [d EXCEPT !["image_location"] = ReadStream(@)]
    ELSE d

ImageSerializer_validate(d, pr) ==
    LET run == Run(ImageStatements(d, pr))
    IN  Return(run, ImageAfter(d, run))

(* ------------------------- inbound records ----------------------------- *)

RecordTypes ==
    {"Faq", "Resource", "Task", "Topic", "Tag",
     "ResourceTopic", "ResourceTag", "TopicFormat", "Image"}

Texts == {Str(<<>>), Str(<<" ">>), Str(<<"x">>)}

Dates == {Date(n) : n \in 1..MaxDate}

Ids == {IntV(n) : n \in 1..MaxId}

FileNames ==
    { <<"a", ".", "p", "n", "g">>, <<"a", ".", "j", "p", "g">>,
      <<"a", ".", "j", "p", "e", "g">>, <<"a", ".", "g", "i", "f">>,
      <<"a", ".", "P", "N", "G">>, <<"p", "n", "g">>, <<".", "p", "n", "g">>,
      <<"a", ".", "p", "n", "g", ".", "g", "i", "f">> }

FileSizes == {0, MaxImageSize - 1, MaxImageSize, MaxImageSize + 1, 20000000}

\* an upload arrives with its stream at the start
Files == {File(n, s, "start") : n \in FileNames, s \in FileSizes}

TotalFlagsValues == {None, IntV(0), IntV(3), Bool(TRUE), Str(<<"a", "b", "c">>), FloatV(1)}

\* the dicts a request can hand to validate(); a key may be missing
Records(type) ==
    CASE type = "Faq" ->
           {MkRecord([question |-> q, org_id |-> o]) :
               q \in Texts \cup {Absent}, o \in Ids \cup {Absent}}
      [] type = "Resource" ->
           {MkRecord([name |-> n, total_flags |-> f]) :
               n \in {Str(<<"x">>)}, f \in TotalFlagsValues \cup {Absent}}
      [] type = "Task" ->
           {MkRecord([name |-> n, description |-> ds, creation_date |-> c,
                      deletion_date |-> x]) :
               n \in Texts \cup {Absent}, ds \in {Str(<<>>), Str(<<"x">>), Absent},
               c \in Dates, x \in Dates \cup {None, Absent}}
      [] type = "Topic" ->
           {MkRecord([name |-> n, description |-> ds, active |-> a,
                      creation_date |-> c, deprecation_date |-> x]) :
               n \in {Str(<<>>), Str(<<"x">>), Absent},
               ds \in {Str(<<>>), Str(<<"x">>), Absent},
               a \in {Bool(TRUE), Bool(FALSE), Absent},
               c \in Dates, x \in Dates \cup {None, Absent}}
      [] type = "Tag" ->
           {MkRecord([text |-> x, description |-> ds]) :
               x \in Texts \cup {Absent}, ds \in {Str(<<>>), Str(<<"x">>)}}
      [] type = "ResourceTopic" ->
           {MkRecord([resource_id |-> r, topic_id |-> x]) :
               r \in Ids \cup {Absent}, x \in Ids \cup {Absent}}
      [] type = "ResourceTag" ->
           {MkRecord([resource_id |-> r, tag_id |-> x]) :
               r \in Ids \cup {Absent}, x \in Ids \cup {Absent}}
      [] type = "TopicFormat" ->
           {MkRecord([topic_id |-> r, format_id |-> x]) :
               r \in Ids \cup {Absent}, x \in Ids \cup {Absent}}
      [] type = "Image" ->
           {MkRecord([image_location |-> f]) : f \in Files \cup {Absent}}

\* the models whose rows the serializer of a type looks up
ModelsOf(type) ==
    CASE type = "Faq" -> {"entities.Organization"}
      [] type = "ResourceTopic" -> {"Resource", "Topic"}
      [] type = "ResourceTag" -> {"Resource", "Tag"}
      [] type = "TopicFormat" -> {"Topic", "Format"}
      [] OTHER -> {}

\* the database contents the call can observe: any set of existing rows
Databases(type) == SUBSET (ModelsOf(type) \X (1..MaxId))

\* what the caller of validate() sees
NoResult == [status |-> "None"]

ResultOf(out) ==
    CASE out.exc.kind = "none" -> [status |-> "Accepted", record |-> out.ret]
      [] out.exc.kind = "ValidationError" ->
           [status |-> "Rejected", errors |-> out.exc.detail]
      [] OTHER -> [status |-> "Crashed", exc |-> out.exc]

(* ---------------------------- state machine ---------------------------- *)

Init ==
    /\ recordType = "Faq"
    /\ data = MkRecord([question |-> Str(<<"x">>), org_id |-> IntV(1)])
    /\ db = {}
    /\ probe = "Ok"
    /\ result = NoResult
    /\ calls = <<>>
    /\ pc = "idle"

\* a request arrives with a record of some type; the collaborators' answers
\* for the coming call are fixed
Receive ==
    /\ pc \in {"idle", "done"}
    /\ \E type \in RecordTypes :
         /\ recordType' = type
         /\ data' \in Records(type)
         /\ db' \in Databases(type)
         /\ probe' \in (IF type = "Image" THEN ProbeOutcomes ELSE {"Ok"})
    /\ result' = NoResult
    /\ calls' = <<>>
    /\ pc' = "received"

Finish(out) ==
    /\ data' = out.data
    /\ result' = ResultOf(out)
    /\ calls' = out.calls
    /\ pc' = "done"
    /\ UNCHANGED <<recordType, db, probe>>

FaqValidate ==
    /\ pc = "received" /\ recordType = "Faq"
    /\ Finish(FaqSerializer_validate(data, db))

ResourceValidate ==
    /\ pc = "received" /\ recordType = "Resource"
    /\ Finish(ResourceSerializer_validate(data))

TaskValidate ==
    /\ pc = "received" /\ recordType = "Task"
    /\ Finish(TaskSerializer_validate(data))

TopicValidate ==
    /\ pc = "received" /\ recordType = "Topic"
    /\ Finish(TopicSerializer_validate(data))

TagValidate ==
    /\ pc = "received" /\ recordType = "Tag"
    /\ Finish(TagSerializer_validate(data))

ResourceTopicValidate ==
    /\ pc = "received" /\ recordType = "ResourceTopic"
    /\ Finish(ResourceTopicSerializer_validate(data, db))

ResourceTagValidate ==
    /\ pc = "received" /\ recordType = "ResourceTag"
    /\ Finish(ResourceTagSerializer_validate(data, db))

TopicFormatValidate ==
    /\ pc = "received" /\ recordType = "TopicFormat"
    /\ Finish(TopicFormatSerializer_validate(data, db))

ImageValidate ==
    /\ pc = "received" /\ recordType = "Image"
    /\ Finish(ImageSerializer_validate(data, probe))

Next ==
    \/ Receive
    \/ FaqValidate
    \/ ResourceValidate
    \/ TaskValidate
    \/ TopicValidate
    \/ TagValidate
    \/ ResourceTopicValidate
    \/ ResourceTagValidate
    \/ TopicFormatValidate
    \/ ImageValidate

Spec == Init /\ [][Next]_vars

TypeOK ==
    /\ recordType \in RecordTypes
    /\ pc \in {"idle", "received", "done"}
    /\ result.status \in {"None", "Accepted", "Rejected", "Crashed"}

(* ------------------- vocabulary of the properties ---------------------- *)

\* the keys the serializer of a type subscripts with data[...]
ReferencedFields(type) ==
    CASE type = "Faq" -> {"question", "org_id"}
      [] type = "Resource" -> {}
      [] type = "Task" -> {"name", "description"}
      [] type = "Topic" -> {"name", "description", "active", "deprecation_date"}
      [] type = "Tag" -> {"text"}
      [] type = "ResourceTopic" -> {"resource_id", "topic_id"}
      [] type = "ResourceTag" -> {"resource_id", "tag_id"}
      [] type = "TopicFormat" -> {"topic_id", "format_id"}
      [] type = "Image" -> {"image_location"}

Complete(type, d) == ReferencedFields(type) \subseteq DOMAIN d

MissingFields(type, d) == ReferencedFields(type) \ DOMAIN d

When(cond, code) == IF cond THEN <<code>> ELSE <<>>

\* s = prefix + suffix for some prefix
HasSuffix(s, suffix) == \E n \in 0..Len(s) : s = SubSeq(s, 1, n) \o suffix

AllowListed(name) ==
    \/ HasSuffix(name, <<".", "j", "p", "g">>)
    \/ HasSuffix(name, <<".", "j", "p", "e", "g">>)
    \/ HasSuffix(name, <<".", "p", "n", "g">>)

\* The rule table: the error codes of the rules whose error condition holds
\* for a complete record, in the order of the table.
RuleViolations(type, d, rows, pr) ==
    CASE type = "Faq" ->
           When(IsBlank(d["question"].s), "empty_field")
           \o When(<<"entities.Organization", d["org_id"].n>> \notin rows, "not_found")
      [] type = "Resource" ->
           When(/\ Get(d, "total_flags").t # "none"
                /\ Get(d, "total_flags").t \notin {"int", "bool"}, "invalid_type")
      [] type = "Task" ->
           When(IsBlank(d["name"].s), "empty_field")
           \o When(IsBlank(d["description"].s), "empty_field")
           \o When(/\ Get(d, "deletion_date").t = "date"
                   /\ Get(d, "deletion_date").d < d["creation_date"].d, "date_order")
      [] type = "Topic" ->
           When(IsBlank(d["name"].s), "empty_field")
           \o When(IsBlank(d["description"].s), "empty_field")
           \o When(d["active"].b /\ d["deprecation_date"].t = "date", "invariant_violation")
           \o When(~d["active"].b /\ d["deprecation_date"].t = "none", "invariant_violation")
           \o When(/\ d["deprecation_date"].t = "date"
                   /\ d["deprecation_date"].d < d["creation_date"].d, "date_order")
      [] type = "Tag" ->
           When(IsBlank(d["text"].s), "empty_field")
      [] type = "ResourceTopic" ->
           When(<<"Resource", d["resource_id"].n>> \notin rows, "not_found")
           \o When(<<"Topic", d["topic_id"].n>> \notin rows, "not_found")
      [] type = "ResourceTag" ->
           When(<<"Resource", d["resource_id"].n>> \notin rows, "not_found")
           \o When(<<"Tag", d["tag_id"].n>> \notin rows, "not_found")
      [] type = "TopicFormat" ->
           When(<<"Topic", d["topic_id"].n>> \notin rows, "not_found")
           \o When(<<"Format", d["format_id"].n>> \notin rows, "not_found")
      [] type = "Image" ->
           When(~AllowListed(d["image_location"].name), "invalid_file")
           \o When(d["image_location"].size > 10485760, "invalid_file")
           \o When(pr # "Ok", "corrupted_file")

Violations == RuleViolations(recordType, data, db, probe)

ExtensionError ==
    [msg |-> "The image must be in .jpg, .jpeg, or .png format.", code |-> "invalid_file"]

SizeError ==
    [msg |-> "The image must be less than 10MB in size.", code |-> "invalid_file"]

CorruptedError == [msg |-> "The image is not valid.", code |-> "corrupted_file"]

Rejected(errors) == [status |-> "Rejected", errors |-> errors]

Accepted(d) == [status |-> "Accepted", record |-> d]

ProbeCalls == SelectSeq(calls, LAMBDA c : c.fn = "PilImage.open")

(* ------------------------------- C1 ------------------------------------ *)

\* C1: a complete record that violates k >= 2 rules of its type
\* is rejected with k errors, one per violated rule.
C1_CollectsAllErrors ==
    (pc = "done" /\ Complete(recordType, data) /\ Len(Violations) >= 2)
        => /\ result.status = "Rejected"
           /\ Len(result.errors) = Len(Violations)


(* ------------------------------- C2 ------------------------------------ *)

\* C2: a Resource is rejected with invalid_type exactly when total_flags is
\* present, not None and not an integer; otherwise it is accepted.
C2_RejectsNonIntegerTotalFlags ==
    (pc = "done" /\ recordType = "Resource") =>
        IF /\ Get(data, "total_flags").t # "none"
           /\ Get(data, "total_flags").t \notin {"int", "bool"}
        THEN /\ result.status = "Rejected"
             /\ \E i \in 1..Len(result.errors) : result.errors[i].code = "invalid_type"
        ELSE result.status = "Accepted"

(* ------------------------------- C3 ------------------------------------ *)

\* C3: a complete Topic with non-empty name and description and no
\* date-order violation is accepted iff (active and no deprecation date) or
\* (not active and a deprecation date); the other two combinations are
\* rejected.
C3_TopicActiveDeprecation ==
    ( /\ pc = "done" /\ recordType = "Topic" /\ Complete(recordType, data)
      /\ ~IsBlank(data["name"].s) /\ ~IsBlank(data["description"].s)
      /\ \/ data["deprecation_date"].t = "none"
         \/ data["deprecation_date"].d >= data["creation_date"].d )
    => LET active == data["active"].b
           unset == data["deprecation_date"].t = "none"
       IN  /\ result.status = "Accepted" <=> ((active /\ unset) \/ (~active /\ ~unset))
           /\ result.status \in {"Accepted", "Rejected"}

\* an inactive Topic without a deprecation date, otherwise valid, was rejected
C3_Witness ==
    /\ pc = "done" /\ recordType = "Topic" /\ Complete(recordType, data)
    /\ ~IsBlank(data["name"].s) /\ ~IsBlank(data["description"].s)
    /\ data["active"] = Bool(FALSE) /\ data["deprecation_date"].t = "none"
    /\ result.status = "Rejected"

(* ------------------------------- C4 ------------------------------------ *)

\* C4: when the record lacks a field its serializer dereferences, validation
\* ends with a MissingField validation error naming a missing field and not
\* with an exception outside the error taxonomy.
C4_MissingFieldIsValidationError ==
    (pc = "done" /\ MissingFields(recordType, data) # {}) =>
        /\ result.status = "Rejected"
        /\ \E i \in 1..Len(result.errors) :
              /\ result.errors[i].code = "MissingField"
              /\ result.errors[i].msg \in MissingFields(recordType, data)

(* ------------------------------- C5 ------------------------------------ *)

\* C5: a complete record that violates exactly one rule of the rule table is
\* rejected with exactly one error, whose code is the code the table gives
\* to that rule.
C5_SingleViolationCode ==
    (pc = "done" /\ Complete(recordType, data) /\ Len(Violations) = 1) =>
        /\ result.status = "Rejected"
        /\ Len(result.errors) = 1
        /\ result.errors[1].code = Violations[1]

(* ------------------------------- C6 ------------------------------------ *)

\* C6: an Image with an allow-listed extension and a decodable blob is
\* rejected (with invalid_file) iff its size is strictly greater than
\* 10,485,760 bytes, and accepted otherwise.
C6_ImageSizeBound ==
    ( /\ pc = "done" /\ recordType = "Image" /\ Complete(recordType, data)
      /\ AllowListed(data["image_location"].name) /\ probe = "Ok" )
    => IF data["image_location"].size > 10485760
       THEN result.status = "Rejected" /\ result.errors[1].code = "invalid_file"
       ELSE result = Accepted(data)

\* a decodable .png of exactly 10,485,760 bytes was accepted
C6_Witness ==
    /\ pc = "done" /\ recordType = "Image" /\ Complete(recordType, data)
    /\ AllowListed(data["image_location"].name) /\ probe = "Ok"
    /\ data["image_location"].size = 10485760
    /\ result.status = "Accepted"

(* ------------------------------- C7 ------------------------------------ *)

\* C7: an Image is rejected by the extension rule (invalid_file, extension
\* message) iff its file name does not end with .jpg, .jpeg or .png, compared
\* case-sensitively, whatever its size and whatever the decoder would say.
C7_ImageExtension ==
    (pc = "done" /\ recordType = "Image" /\ Complete(recordType, data)) =>
        (result = Rejected(<<ExtensionError>>)
            <=> ~AllowListed(data["image_location"].name))

\* a.PNG of an acceptable size and decodable content was rejected for its
\* extension
C7_Witness ==
    /\ pc = "done" /\ recordType = "Image" /\ Complete(recordType, data)
    /\ data["image_location"].name = <<"a", ".", "P", "N", "G">>
    /\ data["image_location"].size <= 10485760 /\ probe = "Ok"
    /\ result = Rejected(<<ExtensionError>>)

(* ------------------------------- C8 ------------------------------------ *)

\* C8: a validation step never changes the record, and when the record is
\* complete and no rule of the table is violated the step returns Accepted
\* carrying that same record.
C8_ReadOnlyAndAccepted ==
    [][ pc = "received" =>
          /\ data' = data
          /\ (Complete(recordType, data) /\ Len(Violations) = 0)
                => result' = Accepted(data) ]_vars


(* ------------------------------- C10 ----------------------------------- *)

\* C10: Image validation checks extension, then size, then decodes.  The
\* decoder is called at most once, and only when extension and size passed;
\* whatever exception the decoder raises, the result is the single error
\* corrupted_file and nothing escapes validate.
C10_AnyProbeExceptionIsCorrupted ==
    (pc = "done" /\ recordType = "Image" /\ Complete(recordType, data)) =>
        LET extOk == AllowListed(data["image_location"].name)
            sizeOk == data["image_location"].size <= 10485760
        IN  /\ Len(ProbeCalls) <= 1
            /\ Len(ProbeCalls) = 1 <=> (extOk /\ sizeOk)
            /\ ~extOk => result = Rejected(<<ExtensionError>>)
            /\ (extOk /\ ~sizeOk) => result = Rejected(<<SizeError>>)
            /\ (extOk /\ sizeOk /\ probe # "Ok") => result = Rejected(<<CorruptedError>>)
            /\ result.status # "Crashed"

\* C10 (amended): the same order and at-most-once call of the decoder; an
\* exception of the decoder that derives from Exception gives the single
\* error corrupted_file, while one that derives from BaseException only
\* (KeyboardInterrupt, SystemExit, GeneratorExit) propagates out of validate.
C10_ImageProbeOrder ==
    (pc = "done" /\ recordType = "Image" /\ Complete(recordType, data)) =>
        LET extOk == AllowListed(data["image_location"].name)
            sizeOk == data["image_location"].size <= 10485760
        IN  /\ Len(ProbeCalls) <= 1
            /\ Len(ProbeCalls) = 1 <=> (extOk /\ sizeOk)
            /\ ~extOk => result = Rejected(<<ExtensionError>>)
            /\ (extOk /\ ~sizeOk) => result = Rejected(<<SizeError>>)
            /\ (extOk /\ sizeOk /\ probe \in ExceptionSubclasses)
                  => result = Rejected(<<CorruptedError>>)
            /\ (extOk /\ sizeOk /\ probe \in BaseExceptionOnly)
                  => result = [status |-> "Crashed", exc |-> [kind |-> probe]]
            /\ (extOk /\ sizeOk /\ probe = "Ok") => result.status = "Accepted"
            /\ result.status = "Crashed" => (extOk /\ sizeOk /\ probe \in BaseExceptionOnly)

\* the decoder was called once on a well-named, small enough file, raised a
\* SyntaxError, and the call ended with corrupted_file
C10_Witness ==
    /\ pc = "done" /\ recordType = "Image"
    /\ Len(ProbeCalls) = 1 /\ probe = "SyntaxError"
    /\ result = Rejected(<<CorruptedError>>)

====
